---- MODULE Spec2Model ----
(***************************************************************************)
(* quantum_coin_flip.py: one run of the script, from the registration     *)
(* attempt to the write of tmp-ck-timer.json, with the NumpyEncoder hook   *)
(* and json.dumps(sort_keys=True, indent=4) modelled on value trees.       *)
(***************************************************************************)
EXTENDS Integers, Sequences, FiniteSets, TLC

(* ---------------------------------------------------------------------- *)
(* Bounds of the input domain.                                             *)
(* ---------------------------------------------------------------------- *)
\* numeric payloads are 0..MaxNum
MaxNum == 1
\* lists and arrays hold at most MaxLen elements
MaxLen == 2

\* indent = 4 of the json.dumps call
Indent == 4

Nums == 0..MaxNum
Ends == {0, MaxNum}

(* ---------------------------------------------------------------------- *)
(* Python values.  Every value is a record of the same shape; k is the     *)
(* value's type, n / im its numeric payload, s its string payload, items   *)
(* its children and keys the keys of a dict in insertion order.            *)
(* ---------------------------------------------------------------------- *)
Val(k, n, im, s, items, keys) ==
    [k |-> k, n |-> n, im |-> im, s |-> s, items |-> items, keys |-> keys]

\* a name that is not bound yet
Unbound == Val("<unbound>", 0, 0, "", <<>>, <<>>)
PyNone == Val("None", 0, 0, "", <<>>, <<>>)
PyBool(b) == Val("bool", b, 0, "", <<>>, <<>>)
PyInt(n) == Val("int", n, 0, "", <<>>, <<>>)
PyFloat(n) == Val("float", n, 0, "", <<>>, <<>>)
PyStr(s) == Val("str", 0, 0, s, <<>>, <<>>)
PyComplex(re, im) == Val("complex", re, im, "", <<>>, <<>>)
PyList(items) == Val("list", 0, 0, "", items, <<>>)
PyDict(keys, items) == Val("dict", 0, 0, "", items, keys)
\* numpy scalars and arrays
NpBool(b) == Val("bool_", b, 0, "", <<>>, <<>>)
NpInt64(n) == Val("int64", n, 0, "", <<>>, <<>>)
NpFloat64(n) == Val("float64", n, 0, "", <<>>, <<>>)
NpComplex128(re, im) == Val("complex128", re, im, "", <<>>, <<>>)
Ndarray(dtype, items) == Val("ndarray", 0, 0, dtype, items, <<>>)
\* an instance of a class the encoder knows nothing about
Custom(cls) == Val(cls, 0, 0, "", <<>>, <<>>)
\* the Result object returned by Q_program.execute
ResultObj == Val("Result", 0, 0, "COMPLETED", <<>>, <<>>)
\* a raised TypeError, carrying the type name of its message
TypeError(cls) == Val("TypeError", 0, 0, cls, <<>>, <<>>)

IsError(v) == v.k = "TypeError"

\* type(obj).__name__
type_name(obj) == obj.k

(* ---------------------------------------------------------------------- *)
(* NumpyEncoder.default                                                    *)
(* ---------------------------------------------------------------------- *)
\* np.complex is the builtin complex; numpy's complex128 derives from it
IsComplex(obj) == obj.k \in {"complex", "complex128"}

RECURSIVE tolist(_)
\* list(obj) in place of obj.tolist(): the elements stay numpy scalars
tolist_list(obj) == PyList(obj.items)
\* obj.tolist(): nested lists of Python scalars
tolist(obj) ==
    PyList([i \in 1..Len(obj.items) |->
        LET e == obj.items[i] IN
        IF e.k = "ndarray" THEN tolist(e)
        ELSE IF e.k = "int64" THEN PyInt(e.n)
        ELSE IF e.k = "float64" THEN PyFloat(e.n)
        ELSE IF e.k = "complex128" THEN PyComplex(e.n, e.im)
        ELSE IF e.k = "bool_" THEN PyBool(e.n)
        ELSE e])

\* obj.real: a float for complex, a float64 for complex128
real(obj) == IF obj.k = "complex128" THEN NpFloat64(obj.n) ELSE PyFloat(obj.n)
\* obj.imag
imag(obj) == IF obj.k = "complex128" THEN NpFloat64(obj.im) ELSE PyFloat(obj.im)

\* a fallback that stringifies instead of raising
JSONEncoder_default_str(obj) == PyStr(type_name(obj))
\* json.JSONEncoder.default: raises TypeError naming the type
JSONEncoder_default(obj) == TypeError(type_name(obj))

\* the hook with its complex branch returning obj.imag
default_imag(obj) ==
    IF obj.k = "ndarray" THEN tolist(obj)
    ELSE IF obj.k = "bool_" THEN PyBool(obj.n)
    ELSE IF IsComplex(obj) THEN imag(obj)
    ELSE JSONEncoder_default(obj)
\* lines 98-105
default(obj) ==
    IF obj.k = "ndarray" THEN tolist(obj)
    ELSE IF obj.k = "bool_" THEN PyBool(obj.n)
    ELSE IF IsComplex(obj) THEN real(obj)
    ELSE JSONEncoder_default(obj)

(* ---------------------------------------------------------------------- *)
(* json.dumps(..., cls=NumpyEncoder, sort_keys=True, indent=4)             *)
(* ---------------------------------------------------------------------- *)
\* every key that occurs, in lexicographic order
AllKeys == <<"00", "11", "backends", "counts", "email", "result">>
Rank(key) == CHOOSE i \in 1..Len(AllKeys) : AllKeys[i] = key

\* positions of a dict's items in the order the encoder visits them
InsertionOrder(keys) == [p \in 1..Len(keys) |-> p]
SortedOrder(keys) ==
    [p \in 1..Len(keys) |->
        CHOOSE i \in 1..Len(keys) :
            Cardinality({j \in 1..Len(keys) : Rank(keys[j]) < Rank(keys[i])}) = p - 1]
VisitOrder(keys, sort_keys) ==
    IF sort_keys THEN SortedOrder(keys) ELSE InsertionOrder(keys)

\* the first error among the children, visited in the given order
FirstError(vals, order) ==
    LET bad == {p \in 1..Len(order) : IsError(vals[order[p]])}
    IN vals[order[CHOOSE p \in bad : \A q \in bad : p <= q]]
AnyError(vals) == \E i \in 1..Len(vals) : IsError(vals[i])

Native == {"str", "None", "bool", "int", "float"}

\* The tree the encoder emits: natives as they are, lists and dicts
\* child by child, every other object through default() and again.
RECURSIVE normalize(_)
\* the hook applied to every scalar, JSON values included
normalize_hookAll(o) ==
    IF o.k \in {"list", "dict"}
    THEN LET vals == [i \in 1..Len(o.items) |-> normalize(o.items[i])]
         IN IF AnyError(vals)
            THEN FirstError(vals, IF o.k = "dict" THEN VisitOrder(o.keys, TRUE)
                                  ELSE InsertionOrder(o.items))
            ELSE Val(o.k, 0, 0, "", vals, o.keys)
    ELSE LET d == default(o)
         IN IF IsError(d) \/ d.k \in Native THEN d ELSE normalize(d)
\* lines 97-105 under the json.dumps of line 113
normalize(o) ==
    IF o.k \in Native THEN o
    ELSE IF o.k = "float64" THEN PyFloat(o.n)
    ELSE IF o.k = "list"
    THEN LET vals == [i \in 1..Len(o.items) |-> normalize(o.items[i])]
         IN IF AnyError(vals)
            THEN FirstError(vals, InsertionOrder(o.items))
            ELSE PyList(vals)
    ELSE IF o.k = "dict"
    THEN LET vals == [i \in 1..Len(o.items) |-> normalize(o.items[i])]
         IN IF AnyError(vals)
            THEN FirstError(vals, VisitOrder(o.keys, TRUE))
            ELSE PyDict(o.keys, vals)
    ELSE LET d == default(o) IN IF IsError(d) THEN d ELSE normalize(d)

RECURSIVE Spaces(_)
Spaces(n) == IF n <= 0 THEN "" ELSE " " \o Spaces(n - 1)
Newline(level) == "\n" \o Spaces(Indent * level)

RECURSIVE Join(_, _)
Join(parts, sep) ==
    IF Len(parts) = 0 THEN ""
    ELSE IF Len(parts) = 1 THEN parts[1]
    ELSE parts[1] \o sep \o Join(Tail(parts), sep)

Quote(s) == "\"" \o s \o "\""

\* the text of a tree of natives at a nesting level
RECURSIVE render(_, _, _)
render(o, level, sort_keys) ==
    IF o.k = "str" THEN Quote(o.s)
    ELSE IF o.k = "None" THEN "null"
    ELSE IF o.k = "bool" THEN (IF o.n = 1 THEN "true" ELSE "false")
    ELSE IF o.k = "int" THEN ToString(o.n)
    ELSE IF o.k = "float" THEN ToString(o.n) \o ".0"
    ELSE IF o.k = "list"
    THEN IF Len(o.items) = 0 THEN "[]"
         ELSE "[" \o Newline(level + 1)
              \o Join([i \in 1..Len(o.items) |->
                          render(o.items[i], level + 1, sort_keys)],
                      "," \o Newline(level + 1))
              \o Newline(level) \o "]"
    ELSE IF Len(o.items) = 0 THEN "{}"
         ELSE LET order == VisitOrder(o.keys, sort_keys)
              IN "{" \o Newline(level + 1)
                 \o Join([p \in 1..Len(order) |->
                             Quote(o.keys[order[p]]) \o ": "
                             \o render(o.items[order[p]], level + 1, sort_keys)],
                         "," \o Newline(level + 1))
                 \o Newline(level) \o "}"

\* json.dumps without sort_keys
dumps_unsorted(obj) ==
    LET nv == normalize(obj)
    IN IF IsError(nv) THEN nv ELSE PyStr(render(nv, 0, FALSE))
\* json.dumps: the text, or the TypeError raised while encoding
dumps(obj) ==
    LET nv == normalize(obj)
    IN IF IsError(nv) THEN nv ELSE PyStr(render(nv, 0, TRUE))

(* ---------------------------------------------------------------------- *)
(* What result.get_data("bell") may return.                                *)
(* ---------------------------------------------------------------------- *)
Bits == {0, 1}
Classes == {"Decimal", "set"}

\* scalars, over all payloads
Leaves ==
    {PyInt(n) : n \in Nums} \cup {PyFloat(n) : n \in Nums}
    \cup {PyBool(b) : b \in Bits} \cup {NpBool(b) : b \in Bits}
    \cup {PyNone, PyStr("COMPLETED")}
    \cup {PyComplex(re, im) : re \in Nums, im \in Nums}
    \cup {NpComplex128(MaxNum, 0), NpInt64(MaxNum)}
    \cup {Custom(c) : c \in Classes}

\* one scalar of each type, as an element of a list or a dict
Elems ==
    {PyInt(MaxNum), PyFloat(MaxNum), PyBool(1), NpBool(1), PyNone,
     PyStr("COMPLETED"), PyComplex(MaxNum, 0), NpInt64(0)}
    \cup {Custom(c) : c \in Classes}

\* a small set of elements for the nested containers
Core == {PyInt(MaxNum), PyComplex(0, MaxNum), Custom("Decimal")}

SeqsOver(S, maxlen) == UNION {[1..len -> S] : len \in 0..maxlen}

ListsOver(S, maxlen) == {PyList(items) : items \in SeqsOver(S, maxlen)}

\* dicts over the keys "00" and "11", in every insertion order
KeyOrders == {<<>>, <<"00">>, <<"11">>, <<"00", "11">>, <<"11", "00">>}
DictsOver(S) ==
    UNION {{PyDict(keys, items) : items \in [1..Len(keys) -> S]} : keys \in KeyOrders}

\* the elements an array of a dtype holds
ArrayElems(dtype) ==
    IF dtype = "int64" THEN {NpInt64(n) : n \in Ends}
    ELSE IF dtype = "float64" THEN {NpFloat64(n) : n \in Ends}
    ELSE IF dtype = "bool" THEN {NpBool(b) : b \in Bits}
    ELSE {NpComplex128(MaxNum, 0), NpComplex128(0, MaxNum)}
Dtypes == {"int64", "float64", "bool", "complex128"}
Arrays1D ==
    UNION {{Ndarray(dtype, items) : items \in SeqsOver(ArrayElems(dtype), MaxLen)} :
           dtype \in Dtypes}
Arrays2D == {Ndarray(row.s, <<row>>) : row \in {a \in Arrays1D : Len(a.items) > 0}}
Arrays == Arrays1D \cup Arrays2D

Nested == ListsOver(Core, 1) \cup DictsOver(Core) \cup Arrays
ResultValues ==
    Leaves \cup ListsOver(Elems, MaxLen) \cup DictsOver(Elems) \cup Arrays
    \cup {PyList(<<c>>) : c \in Nested}
    \cup {PyDict(<<"counts">>, <<c>>) : c \in Nested}

(* ---------------------------------------------------------------------- *)
(* The run of the script.                                                  *)
(* ---------------------------------------------------------------------- *)
VARIABLES
    pc,                 \* the statement the run is at
    registered,         \* whether register(...) succeeded
    available_backends, \* the list of backend names
    email,              \* CK_IBM_API_EMAIL or 'N/A'
    environ_email,      \* CK_IBM_API_EMAIL in the environment, None when unset
    result,             \* the Result of Q_program.execute
    caught,             \* the except QISKitError handler has run
    output_dict,
    formatted_json,
    json_file,          \* the handle: "none", "open" or "closed"
    file_exists,        \* tmp-ck-timer.json is on disk
    file_text,          \* its content
    exc,                \* the exception that ended the run, None when none
    sink_failed,        \* open or write was refused by the sink
    n_records,          \* times output_dict was built
    open_calls,         \* calls of open
    write_calls,        \* calls of json_file.write
    written_arg         \* the text handed to the last write call

vars == <<pc, registered, available_backends, email, environ_email, result,
          caught, output_dict, formatted_json, json_file, file_exists,
          file_text, exc, sink_failed, n_records, open_calls, write_calls,
          written_arg>>

Exc(type, arg) == Val(type, 0, 0, arg, <<>>, <<>>)

\* os.environ.get(name, default) on a variable that holds v
environ_get(v, dflt) == IF v = PyNone THEN dflt ELSE v

\* int(v): a number for an int or a numeric string, ValueError otherwise
int_parses(v) == v.k = "int" \/ (v.k = "str" /\ v.s \in {"5", "60"})

\* available_backends(): the local simulators, and the remote ones once registered
backend_names(reg) ==
    IF reg THEN PyList(<<PyStr("ibmqx4"), PyStr("local_qasm_simulator")>>)
    ELSE PyList(<<PyStr("local_qasm_simulator")>>)

Init ==
    /\ pc = "register"
    /\ registered = FALSE
    /\ available_backends = Unbound
    /\ email = Unbound
    /\ environ_email \in {PyNone, PyStr("user@example.com")}
    /\ result = Unbound
    /\ caught = FALSE
    /\ output_dict = Unbound
    /\ formatted_json = Unbound
    /\ json_file = "none"
    /\ file_exists = FALSE
    /\ file_text = ""
    /\ exc = PyNone
    /\ sink_failed = FALSE
    /\ n_records = 0
    /\ open_calls = 0
    /\ write_calls = 0
    /\ written_arg = ""

\* lines 30-41: register, any exception swallowed with a warning
Register ==
    /\ pc = "register"
    /\ \E ok \in BOOLEAN : registered' = ok
    /\ pc' = "configure"
    /\ UNCHANGED <<available_backends, email, environ_email, result, caught,
                   output_dict, formatted_json, json_file, file_exists, file_text,
                   exc, sink_failed, n_records, open_calls, write_calls, written_arg>>

\* lines 43-51: backends, email, timeout and shots from the environment
Configure ==
    /\ pc = "configure"
    /\ available_backends' = backend_names(registered)
    /\ email' = environ_get(environ_email, PyStr("N/A"))
    /\ \E t \in {PyNone, PyStr("60"), PyStr("soon")}, r \in {PyNone, PyStr("5"), PyStr("many")} :
          IF int_parses(environ_get(t, PyInt(120))) /\ int_parses(environ_get(r, PyInt(10)))
          THEN pc' = "build" /\ exc' = exc
          ELSE pc' = "aborted" /\ exc' = Exc("ValueError", "int")
    /\ UNCHANGED <<registered, environ_email, result, caught, output_dict,
                   formatted_json, json_file, file_exists, file_text, sink_failed,
                   n_records, open_calls, write_calls, written_arg>>

\* lines 86-87: the handler prints the error; control goes on to line 107
HandleQISKitError ==
    /\ caught' = TRUE
    /\ pc' = "record"

\* lines 58-72: registers, circuit and gates
BuildCircuit ==
    /\ pc = "build"
    /\ \/ pc' = "execute" /\ caught' = caught
       \/ HandleQISKitError
    /\ UNCHANGED <<registered, available_backends, email, environ_email, result,
                   output_dict, formatted_json, json_file, file_exists, file_text,
                   exc, sink_failed, n_records, open_calls, write_calls, written_arg>>

\* line 75: execute binds result, or raises QISKitError
Execute ==
    /\ pc = "execute"
    /\ \/ result' = ResultObj /\ pc' = "show" /\ caught' = caught
       \/ result' = result /\ HandleQISKitError
    /\ UNCHANGED <<registered, available_backends, email, environ_email,
                   output_dict, formatted_json, json_file, file_exists, file_text,
                   exc, sink_failed, n_records, open_calls, write_calls, written_arg>>

\* lines 78-84: print the result; get_data may raise QISKitError
ShowResults ==
    /\ pc = "show"
    /\ \/ pc' = "record" /\ caught' = caught
       \/ HandleQISKitError
    /\ UNCHANGED <<registered, available_backends, email, environ_email, result,
                   output_dict, formatted_json, json_file, file_exists, file_text,
                   exc, sink_failed, n_records, open_calls, write_calls, written_arg>>

\* the dict literal without its email entry
OutputDict_noEmail(backends, mail, data) ==
    PyDict(<<"backends", "result">>, <<backends, data>>)
\* the dict literal of lines 107-111
OutputDict(backends, mail, data) ==
    PyDict(<<"backends", "email", "result">>, <<backends, mail, data>>)

\* lines 107-111 with result = None set by the handler
BuildRecord_placeholder ==
    /\ pc = "record"
    /\ \E d \in IF result = Unbound THEN {PyNone} ELSE ResultValues :
          /\ output_dict' = OutputDict(available_backends, email, d)
          /\ n_records' = n_records + 1
          /\ pc' = "dumps"
          /\ exc' = exc
    /\ UNCHANGED <<registered, available_backends, email, environ_email, result,
                   caught, formatted_json, json_file, file_exists, file_text,
                   sink_failed, open_calls, write_calls, written_arg>>
\* lines 107-111: NameError when result is unbound; get_data returns the
\* data or raises QISKitError
BuildRecord ==
    /\ pc = "record"
    /\ IF result = Unbound
       THEN /\ exc' = Exc("NameError", "result")
            /\ pc' = "aborted"
            /\ UNCHANGED <<output_dict, n_records>>
       ELSE \/ \E d \in ResultValues :
                 /\ output_dict' = OutputDict(available_backends, email, d)
                 /\ n_records' = n_records + 1
                 /\ pc' = "dumps"
                 /\ exc' = exc
            \/ /\ exc' = Exc("QISKitError", "get_data")
               /\ pc' = "aborted"
               /\ UNCHANGED <<output_dict, n_records>>
    /\ UNCHANGED <<registered, available_backends, email, environ_email, result,
                   caught, formatted_json, json_file, file_exists, file_text,
                   sink_failed, open_calls, write_calls, written_arg>>

\* line 113
Dumps ==
    /\ pc = "dumps"
    /\ LET r == dumps(output_dict)
       IN IF IsError(r)
          THEN exc' = r /\ pc' = "aborted" /\ formatted_json' = formatted_json
          ELSE exc' = exc /\ pc' = "open" /\ formatted_json' = r
    /\ UNCHANGED <<registered, available_backends, email, environ_email, result,
                   caught, output_dict, json_file, file_exists, file_text,
                   sink_failed, n_records, open_calls, write_calls, written_arg>>

\* line 116 with the OSError swallowed
Open_swallow ==
    /\ pc = "open"
    /\ open_calls' = open_calls + 1
    /\ \/ /\ json_file' = "open"
          /\ file_exists' = TRUE
          /\ file_text' = ""
          /\ pc' = "write"
          /\ UNCHANGED <<exc, sink_failed>>
       \/ /\ sink_failed' = TRUE
          /\ pc' = "done"
          /\ UNCHANGED <<json_file, file_exists, file_text, exc>>
    /\ UNCHANGED <<registered, available_backends, email, environ_email, result,
                   caught, output_dict, formatted_json, n_records, write_calls,
                   written_arg>>
\* line 116: open(..., 'w') creates or truncates the file, or raises OSError
Open ==
    /\ pc = "open"
    /\ open_calls' = open_calls + 1
    /\ \/ /\ json_file' = "open"
          /\ file_exists' = TRUE
          /\ file_text' = ""
          /\ pc' = "write"
          /\ UNCHANGED <<exc, sink_failed>>
       \/ /\ sink_failed' = TRUE
          /\ exc' = Exc("OSError", "open")
          /\ pc' = "aborted"
          /\ UNCHANGED <<json_file, file_exists, file_text>>
    /\ UNCHANGED <<registered, available_backends, email, environ_email, result,
                   caught, output_dict, formatted_json, n_records, write_calls,
                   written_arg>>

\* line 117 outside a with block: a failed write leaves at once
Write_noWith ==
    /\ pc = "write"
    /\ write_calls' = write_calls + 1
    /\ written_arg' = formatted_json.s
    /\ \/ /\ file_text' = formatted_json.s
          /\ pc' = "close"
          /\ UNCHANGED <<exc, sink_failed>>
       \/ /\ sink_failed' = TRUE
          /\ exc' = Exc("OSError", "write")
          /\ pc' = "aborted"
          /\ UNCHANGED file_text
    /\ UNCHANGED <<registered, available_backends, email, environ_email, result,
                   caught, output_dict, formatted_json, json_file, file_exists,
                   n_records, open_calls>>
\* line 117: one write of the whole text; on OSError the with block is left
\* through its exit
Write ==
    /\ pc = "write"
    /\ write_calls' = write_calls + 1
    /\ written_arg' = formatted_json.s
    /\ \/ /\ file_text' = formatted_json.s
          /\ UNCHANGED <<exc, sink_failed>>
       \/ /\ sink_failed' = TRUE
          /\ exc' = Exc("OSError", "write")
          /\ UNCHANGED file_text
    /\ pc' = "close"
    /\ UNCHANGED <<registered, available_backends, email, environ_email, result,
                   caught, output_dict, formatted_json, json_file, file_exists,
                   n_records, open_calls>>

\* leaving the with block, with a failed write tried again once
Close_retry ==
    /\ pc = "close"
    /\ json_file' = "closed"
    /\ IF exc = PyNone THEN pc' = "done" /\ exc' = exc
       ELSE IF write_calls < 2 THEN pc' = "write" /\ exc' = PyNone
       ELSE pc' = "aborted" /\ exc' = exc
    /\ UNCHANGED <<registered, available_backends, email, environ_email, result,
                   caught, output_dict, formatted_json, file_exists, file_text,
                   sink_failed, n_records, open_calls, write_calls, written_arg>>
\* line 116: leaving the with block closes the handle; a pending exception
\* goes on to the caller
Close ==
    /\ pc = "close"
    /\ json_file' = "closed"
    /\ pc' = IF exc = PyNone THEN "done" ELSE "aborted"
    /\ UNCHANGED <<registered, available_backends, email, environ_email, result,
                   caught, output_dict, formatted_json, file_exists, file_text,
                   exc, sink_failed, n_records, open_calls, write_calls, written_arg>>

Next ==
    \/ Register
    \/ Configure
    \/ BuildCircuit
    \/ Execute
    \/ ShowResults
    \/ BuildRecord
    \/ Dumps
    \/ Open
    \/ Write
    \/ Close

Spec == Init /\ [][Next]_vars

Ended == pc \in {"done", "aborted"}

(* ---------------------------------------------------------------------- *)
(* Vocabulary of the properties.                                           *)
(* ---------------------------------------------------------------------- *)
\* d[key] of a dict value
Get(d, key) == d.items[CHOOSE i \in 1..Len(d.keys) : d.keys[i] = key]

\* the data get_data("bell") returned to line 110
Data == Get(output_dict, "result")

\* json.dumps has been called
DumpsDone == output_dict # Unbound /\ pc # "dumps"

\* the write of line 117 went through
Written == file_exists /\ file_text # ""

\* a numeric array: numbers, booleans or complex numbers, or rows of them
RECURSIVE NumericArray(_)
NumericArray(a) ==
    /\ a.k = "ndarray"
    /\ \A i \in 1..Len(a.items) :
          \/ a.items[i].k \in {"int64", "float64", "complex128", "bool_"}
          \/ NumericArray(a.items[i])

\* the supported domain: numbers, strings, booleans (the numpy one too),
\* None, complex numbers, numeric arrays, lists and dicts of these
RECURSIVE Supported(_)
Supported(v) ==
    \/ v.k \in {"int", "float", "str", "bool", "None", "bool_", "complex", "complex128"}
    \/ NumericArray(v)
    \/ /\ v.k \in {"list", "dict"}
       /\ \A i \in 1..Len(v.items) : Supported(v.items[i])

\* a tree of JSON values only
RECURSIVE IsNormalized(_)
IsNormalized(v) ==
    \/ v.k \in {"int", "float", "str", "bool", "None"}
    \/ /\ v.k \in {"list", "dict"}
       /\ \A i \in 1..Len(v.items) : IsNormalized(v.items[i])

\* the type names of the values in a tree that match no case of the
\* encoder: not a JSON type, not an array, a numpy boolean or a complex
RECURSIVE UnmatchedTypes(_)
UnmatchedTypes(v) ==
    IF v.k \in {"list", "dict"}
    THEN UNION {UnmatchedTypes(v.items[i]) : i \in 1..Len(v.items)}
    ELSE IF v.k \in {"int", "float", "str", "bool", "None", "ndarray", "bool_",
                     "complex", "complex128", "float64"}
    THEN {}
    ELSE {v.k}

\* wherever v holds a complex number, nv holds the float of its real part
RECURSIVE RealAt(_, _)
RealAt(v, nv) ==
    IF IsComplex(v) THEN nv = PyFloat(v.n)
    ELSE IF v.k \in {"list", "dict", "ndarray"}
    THEN /\ Len(nv.items) = Len(v.items)
         /\ \A i \in 1..Len(v.items) : RealAt(v.items[i], nv.items[i])
    ELSE TRUE

\* a tree holds a complex number with a nonzero imaginary part
RECURSIVE HasComplex(_)
HasComplex(v) ==
    \/ IsComplex(v) /\ v.im # 0
    \/ \E i \in 1..Len(v.items) : HasComplex(v.items[i])

Reverse(seq) == [i \in 1..Len(seq) |-> seq[Len(seq) + 1 - i]]

\* the same tree with the keys of every dict inserted in the opposite order
RECURSIVE Reinsert(_)
Reinsert(v) ==
    LET kids == [i \in 1..Len(v.items) |-> Reinsert(v.items[i])]
    IN IF v.k = "dict" THEN PyDict(Reverse(v.keys), Reverse(kids))
       ELSE Val(v.k, v.n, v.im, v.s, kids, v.keys)

\* the file the run must leave: three keys in lexicographic order
ExpectedText ==
    "{\n    \"backends\": " \o render(backend_names(registered), 1, TRUE)
    \o ",\n    \"email\": "
    \o Quote(IF environ_email = PyNone THEN "N/A" ELSE environ_email.s)
    \o ",\n    \"result\": " \o render(normalize(Data), 1, TRUE)
    \o "\n}"

(* ---------------------------------------------------------------------- *)
(* Properties.                                                             *)
(* ---------------------------------------------------------------------- *)

C2_UnsupportedRejected ==
    (DumpsDone /\ UnmatchedTypes(Data) # {}) =>
        /\ pc = "aborted"
        /\ exc.k = "TypeError" /\ exc.s \in UnmatchedTypes(Data)
        /\ formatted_json = Unbound
        /\ open_calls = 0 /\ write_calls = 0
        /\ json_file = "none" /\ ~file_exists
C2_Witness ==
    /\ pc = "aborted" /\ exc = TypeError("Decimal")
    /\ Data.k = "list" /\ Len(Data.items) = 1
    /\ Data.items[1].k = "dict" /\ Len(Data.items[1].items) = 2

\* C3 as stated: every run that has ended built the record once and wrote
\* it exactly once.
C3_Original ==
    Ended => (n_records = 1 /\ write_calls = 1 /\ Written)
\* C3 amended: the record is built at most once and written at most once;
\* a run that ends normally built it once and wrote it exactly once; a run
\* that ends with an exception left nothing written.
C3_AtMostOnce ==
    /\ n_records <= 1 /\ write_calls <= 1
    /\ Written => (n_records = 1 /\ write_calls = 1 /\ file_text = formatted_json.s)
    /\ pc = "done" => (n_records = 1 /\ write_calls = 1 /\ Written)
    /\ pc = "aborted" => ~Written
C3_Witness ==
    /\ pc = "done" /\ Written /\ write_calls = 1 /\ n_records = 1
    /\ Data.k = "list" /\ Len(Data.items) = MaxLen

\* C4: once open or write has failed the run carries OSError to its end,
\* never ends normally, and makes no further open or write call.
C4_SinkFailureSurfaced ==
    sink_failed =>
        /\ exc.k = "OSError"
        /\ exc.s = "open" => (pc = "aborted" /\ open_calls = 1 /\ write_calls = 0)
        /\ exc.s = "write" => (pc \in {"close", "aborted"} /\ open_calls = 1
                                /\ write_calls = 1)
C4_Witness ==
    sink_failed /\ Ended /\ exc.s = "write" /\ write_calls = 1

\* C5: wherever the data holds a complex number, as a value of its own, in
\* a list or dict or as an element of an array, the emitted tree holds the
\* float of its real part there; 3 + 4i becomes 3.
C5_RealPart ==
    /\ normalize(PyComplex(3, 4)) = PyFloat(3)
    /\ (DumpsDone /\ ~IsError(normalize(Data))) => RealAt(Data, normalize(Data))
C5_Witness ==
    /\ formatted_json # Unbound
    /\ Data.k = "ndarray" /\ Len(Data.items) = 1
    /\ Data.items[1].k = "ndarray" /\ HasComplex(Data)

\* C6: the text json.dumps returned is the text it returns for the same
\* record with the keys of every dict inserted in the opposite order.
C6_OrderIndependent ==
    formatted_json # Unbound => formatted_json = dumps(Reinsert(output_dict))
C6_Witness ==
    /\ formatted_json # Unbound
    /\ Data.k = "dict" /\ Data.keys = <<"counts">>
    /\ Data.items[1].k = "dict" /\ Data.items[1].keys = <<"11", "00">>

\* C7: a written file holds one object with the keys backends, email and
\* result in this order: the backend list, CK_IBM_API_EMAIL or "N/A", and
\* the normalized data.
C7_ThreeKeys ==
    Written => file_text = ExpectedText
C7_Witness ==
    /\ pc = "done" /\ Written /\ environ_email = PyNone /\ registered
    /\ Data.k = "dict" /\ Len(Data.items) = 2

\* C8: a tree of JSON values is emitted as it is, and emitting the emitted
\* tree again changes nothing.
C8_Idempotent ==
    DumpsDone =>
        /\ IsNormalized(Data) => normalize(Data) = Data
        /\ ~IsError(normalize(Data)) => normalize(normalize(Data)) = normalize(Data)
C8_Witness ==
    /\ formatted_json # Unbound /\ IsNormalized(Data)
    /\ Data.k = "dict" /\ Data.keys = <<"11", "00">>

\* C9: a run that opened the file ends with the handle closed, whether the
\* write went through or raised; write is called at most once, with the
\* whole text of json.dumps.
C9_HandleReleased ==
    /\ (Ended /\ file_exists) => json_file = "closed"
    /\ json_file = "open" => pc \in {"write", "close"}
    /\ write_calls <= 1
    /\ write_calls = 1 => (written_arg = formatted_json.s
                           /\ formatted_json = dumps(output_dict))
C9_Witness ==
    pc = "aborted" /\ exc = Exc("OSError", "write") /\ json_file = "closed"

\* C10: the record is built, serialized and written only with the data of
\* a result that execute returned; after a QISKitError that left result
\* unbound the run ends with NameError at line 110, nothing serialized and
\* the file not opened.
C10_OnlyWithResult ==
    /\ (output_dict # Unbound \/ open_calls > 0 \/ file_exists)
          => (result = ResultObj /\ Data \in ResultValues)
    /\ result = Unbound => pc \notin {"dumps", "open", "write", "close", "done"}
    /\ (Ended /\ caught /\ result = Unbound) =>
          /\ pc = "aborted" /\ exc = Exc("NameError", "result")
          /\ output_dict = Unbound /\ formatted_json = Unbound
          /\ open_calls = 0 /\ write_calls = 0 /\ ~file_exists
C10_Witness ==
    pc = "aborted" /\ caught /\ result = Unbound /\ exc.k = "NameError"
====
